---- MODULE Spec2Model ----
(***************************************************************************)
(* Model of the forensicx integrity checker                               *)
(* (src/forensicx/integrity_checker.py) and of the integrity stage of the *)
(* command line (src/forensicx/cli.py).                                   *)
(*                                                                         *)
(* The state is the scanned tree (mount point), the baseline file at the  *)
(* locator, and the value returned by the last call.  Timestamps and      *)
(* mtimes are written by the code but never read by it, and are left out. *)
(***************************************************************************)
EXTENDS Integers, Sequences, FiniteSets, TLC

VARIABLES fs, baseline_file, result, baselined

vars == <<fs, baseline_file, result, baselined>>

----------------------------------------------------------------------------
(* Bounds and value spaces *)

\* longest file content, in bytes
MaxLen == 1

\* relative paths under the mount point
Paths == {"a.txt", "b.txt"}

Bytes == {0, 1}

RECURSIVE SeqsUpTo(_)
SeqsUpTo(n) ==
    IF n = 0 THEN {<<>>}
    ELSE SeqsUpTo(n - 1) \cup [1..n -> Bytes]

Contents == SeqsUpTo(MaxLen)

\* all orders in which a set can be iterated
Perms(S) ==
    {s \in [1..Cardinality(S) -> S] : \A i, j \in 1..Cardinality(S) : s[i] = s[j] => i = j}

\* a sequence restricted to the members of S, order kept
Restrict(order, S) == SelectSeq(order, LAMBDA p : p \in S)

Range(s) == {s[i] : i \in 1..Len(s)}

\* Python's None, as returned by dict.get on a missing key
None == <<>>

EmptyDict == [k \in {} |-> None]

Get(d, k) == IF k \in DOMAIN d THEN d[k] ELSE None

----------------------------------------------------------------------------
(* The file system *)

NoFile == [exists |-> FALSE, content |-> <<>>, readable |-> FALSE]

File(c, r) == [exists |-> TRUE, content |-> c, readable |-> r]

Entries == {NoFile} \cup {File(c, r) : c \in Contents, r \in BOOLEAN}

\* a missing mount point holds no files
NoRoot == [root |-> FALSE, files |-> [p \in Paths |-> NoFile]]

\* locator states that are not a parsed document
Absent == [kind |-> "absent"]
Corrupt == [kind |-> "corrupt"]
Directory == [kind |-> "directory"]

Document(d) == [kind |-> "json", doc |-> d]

\* output_file=None: generate_baseline is asked not to save
NoOutputFile == [kind |-> "none"]

----------------------------------------------------------------------------
(* hashlib digests: collision free, one value per algorithm and content *)

DEFAULT_HASH_ALGORITHMS == <<"md5", "sha256">>

SupportedAlgorithms == {"md5", "sha1", "sha256", "sha512"}

hexdigest(algorithm, content) == <<algorithm, content>>

\* the `algorithms` argument: omitted (None) or a list of identifiers
NoAlgorithms == [given |-> FALSE, list |-> <<>>]

Algorithms(l) == [given |-> TRUE, list |-> l]

\* the message of the OSError raised for a path
OSErrorMsg(errno, p) == <<errno, p>>

\* calculate_file_hashes: hash_objects are created and updated for every
\* supported algorithm, but the returned dict `hashes` only ever receives the
\* 'error' key.  `gone` is true when the file was deleted after the walk
\* listed it.
calculate_file_hashes(p, file, gone, algorithms) ==
    LET algos == IF algorithms.given THEN algorithms.list ELSE DEFAULT_HASH_ALGORITHMS
        supported == {algos[i] : i \in 1..Len(algos)} \cap SupportedAlgorithms
        hash_objects == [a \in supported |-> hexdigest(a, file.content)]
        hashes == EmptyDict
    IN  IF gone THEN [k \in {"error"} |-> OSErrorMsg("ENOENT", p)]
        ELSE IF ~file.readable THEN [k \in {"error"} |-> OSErrorMsg("EACCES", p)]
        ELSE hashes

----------------------------------------------------------------------------
(* Baseline documents *)

\* one entry of baseline['files']
FileRecord(h, s) == [json |-> "object", hashes |-> h, size |-> s]

\* a JSON value in a loaded 'files' mapping that is not an object
Null == [json |-> "null", hashes |-> EmptyDict, size |-> 0]

Msg(kind, arg) == <<kind, arg>>

\* the files os.walk lists under the mount point; a missing or non-directory
\* root yields nothing and raises nothing
Listed(tree) == {p \in Paths : tree.root /\ tree.files[p].exists}

\* the walk of generate_baseline over `tree`, visiting the listed files in the
\* order `walk`; the files in `gone` are deleted after being listed, so that
\* os.stat raises for them
ScanTree(tree, gone, walk) ==
    LET visited == Restrict(walk, Listed(tree))
        recorded == Listed(tree) \ gone
        failed == Restrict(visited, gone)
    IN  [files |-> [p \in recorded |->
                      FileRecord(calculate_file_hashes(p, tree.files[p], FALSE, NoAlgorithms),
                                 Len(tree.files[p].content))],
         errors |-> [i \in 1..Len(failed) |-> Msg("Error processing", failed[i])]]

\* the save step of generate_baseline: json.dump to output_file.  Opening a
\* directory for writing raises, which is caught and appended to the errors of
\* the returned document.
SaveBaseline(baseline, output_file) ==
    IF output_file.kind = "directory"
    THEN [baseline |-> [baseline EXCEPT !.errors = Append(@, Msg("Error saving baseline", ""))],
          saved |-> output_file]
    ELSE [baseline |-> baseline, saved |-> Document(baseline)]

\* generate_baseline(mount_point, output_file): output_file is None or the
\* state of the locator.  Returns the document and the locator afterwards.
generate_baseline(tree, gone, walk, output_file) ==
    IF output_file = NoOutputFile
    THEN [baseline |-> ScanTree(tree, gone, walk), saved |-> NoOutputFile]
    ELSE SaveBaseline(ScanTree(tree, gone, walk), output_file)

----------------------------------------------------------------------------
(* Verification *)

\* verification_results as initialised by verify_integrity
EmptyResults ==
    [files |-> [unchanged |-> <<>>, modified |-> <<>>, new |-> <<>>, missing |-> <<>>],
     summary |-> [total_files |-> 0, unchanged_files |-> 0, modified_files |-> 0,
                  new_files |-> 0, missing_files |-> 0],
     errors |-> <<>>]

\* the `changes` list of a modification: size first, then md5 and sha256 when
\* present in both records with different digests
Changes(previous_info, current_info) ==
    LET previous_hashes == previous_info.hashes
        current_hashes == current_info.hashes
        differs(algo) == /\ algo \in DOMAIN previous_hashes
                         /\ algo \in DOMAIN current_hashes
                         /\ previous_hashes[algo] # current_hashes[algo]
    IN  (IF current_info.size # previous_info.size THEN <<"size">> ELSE <<>>)
        \o (IF differs("md5") THEN <<"md5">> ELSE <<>>)
        \o (IF differs("sha256") THEN <<"sha256">> ELSE <<>>)

\* HashesMatch treating a record without digests as a mismatch
HashesMatch_NonEmpty(previous_hashes, current_hashes) ==
    /\ current_hashes # EmptyDict
    /\ Get(current_hashes, "md5") = Get(previous_hashes, "md5")
    /\ Get(current_hashes, "sha256") = Get(previous_hashes, "sha256")

\* HashesMatch comparing only the algorithms the previous record holds
HashesMatch_PreviousKeysOnly(previous_hashes, current_hashes) ==
    \A algo \in {"md5", "sha256"} :
        algo \in DOMAIN previous_hashes => Get(current_hashes, algo) = previous_hashes[algo]

\* the test that decides unchanged against modified
HashesMatch(previous_hashes, current_hashes) ==
    /\ Get(current_hashes, "md5") = Get(previous_hashes, "md5")
    /\ Get(current_hashes, "sha256") = Get(previous_hashes, "sha256")

\* one iteration of the loop over the common paths
CompareOne(path, previous_info, current_info, vr) ==
    IF HashesMatch(previous_info.hashes, current_info.hashes)
    THEN [vr EXCEPT !.files.unchanged = Append(@, path),
                    !.summary.unchanged_files = @ + 1]
    ELSE [vr EXCEPT !.files.modified =
                        Append(@, [path |-> path, previous |-> previous_info,
                                   current |-> current_info,
                                   changes |-> Changes(previous_info, current_info)]),
                    !.summary.modified_files = @ + 1]

\* the loop over current_paths.intersection(previous_paths), in the order
\* `order`; previous_info.get raises on a value that is not an object, which
\* leaves the loop with the results accumulated so far
RECURSIVE CompareCommon(_, _, _, _)
CompareCommon(order, previous_files, current_files, vr) ==
    IF order = <<>> THEN [raised |-> FALSE, vr |-> vr]
    ELSE LET path == Head(order)
             current_info == current_files[path]
             previous_info == previous_files[path]
         IN  IF previous_info.json # "object"
             THEN [raised |-> TRUE, vr |-> vr]
             ELSE CompareCommon(Tail(order), previous_files, current_files,
                                CompareOne(path, previous_info, current_info, vr))

\* the loops over the paths in one document only
ListOnly(order, files) == [i \in 1..Len(order) |-> [path |-> order[i], info |-> files[order[i]]]]

\* the final tally
Tally(vr) ==
    [vr EXCEPT !.summary.total_files =
        vr.summary.unchanged_files + vr.summary.modified_files
        + vr.summary.new_files + vr.summary.missing_files]

\* Compare with the new-files loop running over all current paths
Compare_NewOverAllCurrent(previous_files, current_files, iter, vr) ==
    LET current_paths == DOMAIN current_files
        previous_paths == DOMAIN previous_files
        common == CompareCommon(Restrict(iter, current_paths \cap previous_paths),
                                previous_files, current_files, vr)
        new == ListOnly(Restrict(iter, current_paths), current_files)
        missing == ListOnly(Restrict(iter, previous_paths \ current_paths), previous_files)
    IN  IF common.raised
        THEN [common.vr EXCEPT !.errors = Append(@, Msg("Error during verification", ""))]
        ELSE Tally([common.vr EXCEPT !.files.new = new,
                                     !.summary.new_files = Len(new),
                                     !.files.missing = missing,
                                     !.summary.missing_files = Len(missing)])

\* the comparison of verify_integrity (the body of its try block after the
\* load), the sets being iterated in the order `iter`
Compare(previous_files, current_files, iter, vr) ==
    LET current_paths == DOMAIN current_files
        previous_paths == DOMAIN previous_files
        common == CompareCommon(Restrict(iter, current_paths \cap previous_paths),
                                previous_files, current_files, vr)
        new == ListOnly(Restrict(iter, current_paths \ previous_paths), current_files)
        missing == ListOnly(Restrict(iter, previous_paths \ current_paths), previous_files)
    IN  IF common.raised
        THEN [common.vr EXCEPT !.errors = Append(@, Msg("Error during verification", ""))]
        ELSE Tally([common.vr EXCEPT !.files.new = new,
                                     !.summary.new_files = Len(new),
                                     !.files.missing = missing,
                                     !.summary.missing_files = Len(missing)])

\* the branch taken when no baseline file exists at the locator
BaselineNotFound(current_files, walk, vr) ==
    LET keys == Restrict(walk, DOMAIN current_files)
    IN  [vr EXCEPT !.errors = Append(@, Msg("Previous baseline file not found", "")),
                   !.summary.new_files = Len(keys),
                   !.summary.total_files = Len(keys),
                   !.files.new = keys]

\* verify_integrity saving the current snapshot over the baseline file
VerifyOutputFile_Locator(locator) == locator

\* the output_file verify_integrity passes to generate_baseline for the current
\* snapshot: none, whatever the locator holds
VerifyOutputFile(locator) == NoOutputFile

\* verify_integrity(mount_point, baseline_file): returns verification_results;
\* `current` is its local current_baseline and `locator` the baseline file
\* after the call
verify_integrity(tree, gone, walk, iter, locator) ==
    LET g == generate_baseline(tree, gone, walk, VerifyOutputFile(locator))
        current_files == g.baseline.files
        after == IF g.saved = NoOutputFile THEN locator ELSE g.saved
        results ==
            IF after.kind = "absent"
            THEN BaselineNotFound(current_files, walk, EmptyResults)
            ELSE IF after.kind # "json"
            THEN [EmptyResults EXCEPT !.errors = Append(@, Msg("Error during verification", ""))]
            ELSE Compare(after.doc.files, current_files, iter, EmptyResults)
    IN  [results |-> results, current |-> g.baseline, locator |-> after]

----------------------------------------------------------------------------
(* The state machine *)

\* no call has returned a value the caller still holds
Idle == [op |-> "none"]

\* the baseline file was not written by generate_baseline
Unknown == FALSE

\* the tree once the files in `gone` have been deleted
Without(tree, gone) ==
    [tree EXCEPT !.files = [p \in Paths |-> IF p \in gone THEN NoFile ELSE tree.files[p]]]

\* baseline documents written at the locator by something other than this
\* program run: records with digests, and a value that is not an object
ExternalRecords ==
    {Null,
     FileRecord([k \in {"md5"} |-> hexdigest("md5", <<>>)], 0),
     FileRecord([k \in {"md5", "sha256"} |-> hexdigest(k, <<0>>)], 1)}

ExternalDocs ==
    {[files |-> f, errors |-> <<>>] :
        f \in UNION {[S -> ExternalRecords] : S \in SUBSET Paths}}

\* algorithm lists a caller passes to calculate_file_hashes
RequestedAlgorithms ==
    {NoAlgorithms, Algorithms(<<"sha1", "sha512">>), Algorithms(<<"md5", "crc32">>),
     Algorithms(<<"crc32">>)}

Init ==
    /\ fs = [root |-> TRUE, files |-> [p \in Paths |-> NoFile]]
    /\ baseline_file = Absent
    /\ result = Idle
    /\ baselined = Unknown

(* the environment: the tree under the mount point *)

WriteFile(p, c) ==
    /\ result = Idle /\ fs.root
    /\ fs' = [fs EXCEPT !.files[p] =
                  File(c, IF fs.files[p].exists THEN fs.files[p].readable ELSE TRUE)]
    /\ fs' # fs
    /\ UNCHANGED <<baseline_file, result, baselined>>

Chmod(p) ==
    /\ result = Idle /\ fs.root
    /\ fs.files[p].exists
    /\ fs' = [fs EXCEPT !.files[p].readable = ~@]
    /\ UNCHANGED <<baseline_file, result, baselined>>

DeleteFile(p) ==
    /\ result = Idle /\ fs.root
    /\ fs.files[p].exists
    /\ fs' = [fs EXCEPT !.files[p] = NoFile]
    /\ UNCHANGED <<baseline_file, result, baselined>>

RemoveRoot ==
    /\ result = Idle /\ fs.root
    /\ fs' = NoRoot
    /\ UNCHANGED <<baseline_file, result, baselined>>

CreateRoot ==
    /\ result = Idle /\ ~fs.root
    /\ fs' = [fs EXCEPT !.root = TRUE]
    /\ UNCHANGED <<baseline_file, result, baselined>>

(* the environment: the baseline file at the locator *)

StoreExternal(d) ==
    /\ result = Idle
    /\ baseline_file.kind \in {"absent", "json", "corrupt"}
    /\ baseline_file' = Document(d)
    /\ baselined' = Unknown
    /\ UNCHANGED <<fs, result>>

CorruptBaseline ==
    /\ result = Idle
    /\ baseline_file.kind = "json"
    /\ baseline_file' = Corrupt
    /\ baselined' = Unknown
    /\ UNCHANGED <<fs, result>>

DeleteBaseline ==
    /\ result = Idle
    /\ baseline_file.kind # "absent"
    /\ baseline_file' = Absent
    /\ baselined' = Unknown
    /\ UNCHANGED <<fs, result>>

MakeDirectory ==
    /\ result = Idle
    /\ baseline_file.kind = "absent"
    /\ baseline_file' = Directory
    /\ baselined' = Unknown
    /\ UNCHANGED <<fs, result>>

(* the program *)

\* whether the baseline file holds a document written by generate_baseline,
\* after a call that returned `g`
Baselined(g) == IF g.saved.kind = "json" THEN TRUE ELSE baselined

\* a call of calculate_file_hashes(file_path, algorithms) on an existing file
CallCalculateFileHashes(p, algorithms) ==
    /\ result = Idle
    /\ fs.root /\ fs.files[p].exists
    /\ result' = [op |-> "calculate_file_hashes", path |-> p, algorithms |-> algorithms,
                  ret |-> calculate_file_hashes(p, fs.files[p], FALSE, algorithms)]
    /\ UNCHANGED <<fs, baseline_file, baselined>>

\* a call of generate_baseline(mount_point, baseline_file): the explicit
\* (re-)baseline
CallGenerateBaseline(gone, walk) ==
    /\ result = Idle
    /\ LET g == generate_baseline(fs, gone, walk, baseline_file)
       IN  /\ result' = [op |-> "generate_baseline", ret |-> g.baseline]
           /\ baseline_file' = g.saved
           /\ fs' = Without(fs, gone)
           /\ baselined' = Baselined(g)

\* a call of verify_integrity(mount_point, baseline_file)
CallVerifyIntegrity(gone, walk, iter) ==
    /\ result = Idle
    /\ LET v == verify_integrity(fs, gone, walk, iter, baseline_file)
       IN  /\ result' = [op |-> "verify_integrity", current |-> v.current, ret |-> v.results]
           /\ baseline_file' = v.locator
    /\ fs' = Without(fs, gone)
    /\ UNCHANGED baselined

\* the integrity stage of main: create the baseline when the locator is not a
\* file, otherwise load it (outside any try) and verify against it
Main(gone, walk, iter) ==
    /\ result = Idle
    /\ IF baseline_file.kind \in {"absent", "directory"}
       THEN LET g == generate_baseline(fs, gone, walk, baseline_file)
            IN  /\ result' = [op |-> "main", outcome |-> "baseline", baseline |-> g.baseline]
                /\ baseline_file' = g.saved
                /\ fs' = Without(fs, gone)
                /\ baselined' = Baselined(g)
       ELSE IF baseline_file.kind = "corrupt"
       THEN /\ result' = [op |-> "main", outcome |-> "JSONDecodeError"]
            /\ UNCHANGED <<fs, baseline_file, baselined>>
       ELSE LET v == verify_integrity(fs, gone, walk, iter, baseline_file)
            IN  /\ result' = [op |-> "main", outcome |-> "verification",
                              baseline |-> baseline_file.doc,
                              current |-> v.current, verification |-> v.results]
                /\ baseline_file' = v.locator
                /\ fs' = Without(fs, gone)
                /\ UNCHANGED baselined

\* the caller is done with the returned value
Return ==
    /\ result # Idle
    /\ result' = Idle
    /\ UNCHANGED <<fs, baseline_file, baselined>>

Next ==
    \/ \E p \in Paths, c \in Contents : WriteFile(p, c)
    \/ \E p \in Paths : Chmod(p)
    \/ \E p \in Paths : DeleteFile(p)
    \/ RemoveRoot
    \/ CreateRoot
    \/ \E d \in ExternalDocs : StoreExternal(d)
    \/ CorruptBaseline
    \/ DeleteBaseline
    \/ MakeDirectory
    \/ \E p \in Paths, a \in RequestedAlgorithms : CallCalculateFileHashes(p, a)
    \/ \E gone \in SUBSET Listed(fs), walk \in Perms(Paths) : CallGenerateBaseline(gone, walk)
    \/ \E gone \in SUBSET Listed(fs), walk \in Perms(Paths), iter \in Perms(Paths) :
          CallVerifyIntegrity(gone, walk, iter)
    \/ \E gone \in SUBSET Listed(fs), walk \in Perms(Paths), iter \in Perms(Paths) :
          Main(gone, walk, iter)
    \/ Return

Spec == Init /\ [][Next]_vars

----------------------------------------------------------------------------
(* The comparison alone, applied to any two baseline documents *)

\* the algorithm sets of the records: none, partial, the default pair, and a
\* pair outside the default
DiffAlgorithmSets == {{}, {"md5"}, {"md5", "sha256"}, {"sha1", "sha512"}}

\* the contents of the recorded files: of every length, differing in the
\* first byte
DiffContents == {c \in Contents : \A i \in 2..Len(c) : c[i] = 0}

\* records of files hashed with one of the algorithm sets
DiffRecords ==
    {FileRecord([a \in A |-> hexdigest(a, c)], Len(c)) :
        A \in DiffAlgorithmSets, c \in DiffContents}

DiffDocs ==
    {[files |-> f, errors |-> <<>>] :
        f \in UNION {[S -> DiffRecords] : S \in SUBSET Paths}}

InitDiff ==
    /\ fs = [root |-> TRUE, files |-> [p \in Paths |-> NoFile]]
    /\ baseline_file \in {Document(d) : d \in DiffDocs}
    /\ result = Idle
    /\ baselined = Unknown

\* the comparison of the loaded previous document with a current document
DiffCompare(current, iter) ==
    /\ result = Idle
    /\ result' = [op |-> "compare", current |-> current,
                  ret |-> Compare(baseline_file.doc.files, current.files, iter, EmptyResults)]
    /\ UNCHANGED <<fs, baseline_file, baselined>>

DiffReturn ==
    /\ result # Idle
    /\ result' = Idle
    /\ UNCHANGED <<fs, baseline_file, baselined>>

NextDiff ==
    \/ \E current \in DiffDocs, iter \in Perms(Paths) : DiffCompare(current, iter)
    \/ DiffReturn

SpecDiff == InitDiff /\ [][NextDiff]_vars

----------------------------------------------------------------------------
(* Properties of reports and documents *)

\* the caller holds a verification report
HasReport ==
    \/ result.op = "verify_integrity"
    \/ result.op = "compare"
    \/ result.op = "main" /\ result.outcome = "verification"

TheReport == IF result.op = "main" THEN result.verification ELSE result.ret

NotFound(r) == Msg("Previous baseline file not found", "") \in Range(r.errors)

UnchangedPaths(r) == Range(r.files.unchanged)

ModifiedPaths(r) == {m.path : m \in Range(r.files.modified)}

\* the not-found branch lists bare paths, the comparison lists {path, info}
NewPaths(r) ==
    IF NotFound(r) THEN Range(r.files.new) ELSE {e.path : e \in Range(r.files.new)}

MissingPaths(r) == {e.path : e \in Range(r.files.missing)}

\* the changes recorded for a path among the modified entries
ChangesOf(r, p) == UNION {Range(m.changes) : m \in {x \in Range(r.files.modified) : x.path = p}}

\* the digest algorithms of a record's hashes mapping
AlgorithmsOf(info) == DOMAIN info.hashes \cap SupportedAlgorithms

CommonAlgorithms(previous_info, current_info) ==
    AlgorithmsOf(previous_info) \cap AlgorithmsOf(current_info)

\* every value of the files mapping is an object
WellFormed(doc) == \A p \in DOMAIN doc.files : doc.files[p].json = "object"

\* the report was computed against a baseline loaded from the locator
Compared == HasReport /\ baseline_file.kind = "json"

\* a path with an object record in both compared documents
InBoth(p) ==
    /\ p \in DOMAIN baseline_file.doc.files /\ p \in DOMAIN result.current.files
    /\ baseline_file.doc.files[p].json = "object"

\* C1: a file present and readable at baseline time and at verification time
\* whose digest and size both changed is listed in modified, not in unchanged,
\* with changes naming size and each mismatched algorithm.  The stored record
\* holds the size the file had when the baseline was generated, and contents
\* of different sizes have different digests for every algorithm.
C1_ChangedFileIsModified ==
    (Compared /\ baselined) =>
        \A p \in Paths :
            ( /\ InBoth(p)
              /\ "error" \notin DOMAIN baseline_file.doc.files[p].hashes
              /\ fs.files[p].exists /\ fs.files[p].readable
              /\ baseline_file.doc.files[p].size # Len(fs.files[p].content) )
            => /\ p \in ModifiedPaths(TheReport)
               /\ p \notin UnchangedPaths(TheReport)
               /\ {"size"} \cup Range(DEFAULT_HASH_ALGORITHMS) \subseteq ChangesOf(TheReport, p)

C3_TotalIsSum ==
    HasReport =>
        LET sm == TheReport.summary
        IN  sm.total_files = sm.unchanged_files + sm.modified_files
                             + sm.new_files + sm.missing_files

\* C4: two records at the same path with equal digests for every common
\* algorithm but different sizes are classified modified, with size in changes.
C4_SizeChangeIsModified ==
    (Compared /\ WellFormed(baseline_file.doc)) =>
        \A p \in Paths :
            ( /\ InBoth(p)
              /\ LET previous_info == baseline_file.doc.files[p]
                     current_info == result.current.files[p]
                 IN  /\ \A a \in CommonAlgorithms(previous_info, current_info) :
                           previous_info.hashes[a] = current_info.hashes[a]
                     /\ previous_info.size # current_info.size )
            => /\ p \in ModifiedPaths(TheReport)
               /\ "size" \in ChangesOf(TheReport, p)

\* C5: an algorithm present in only one of the two records is no mismatch:
\* with equal sizes and equal digests for every common algorithm the path is
\* unchanged, not modified.
C5_OneSidedAlgorithmIsUnchanged ==
    (Compared /\ WellFormed(baseline_file.doc)) =>
        \A p \in Paths :
            ( /\ InBoth(p)
              /\ LET previous_info == baseline_file.doc.files[p]
                     current_info == result.current.files[p]
                 IN  /\ \A a \in CommonAlgorithms(previous_info, current_info) :
                           previous_info.hashes[a] = current_info.hashes[a]
                     /\ previous_info.size = current_info.size )
            => /\ p \in UnchangedPaths(TheReport)
               /\ p \notin ModifiedPaths(TheReport)

C7_DigestForEverySupportedAlgorithm ==
    (result.op = "calculate_file_hashes" /\ fs.files[result.path].readable) =>
        LET algos == IF result.algorithms.given THEN result.algorithms.list
                     ELSE DEFAULT_HASH_ALGORITHMS
        IN  \A a \in Range(algos) \cap SupportedAlgorithms :
                /\ a \in DOMAIN result.ret
                /\ result.ret[a] = hexdigest(a, fs.files[result.path].content)

\* the step is a verification run
VerificationRun ==
    /\ result = Idle
    /\ \/ result'.op = "verify_integrity"
       \/ result'.op = "main" /\ result'.outcome = "verification"

\* C8: a verification run that finds a stored baseline at the locator leaves
\* the stored baseline as it is.
C8_VerificationKeepsBaseline ==
    [][(VerificationRun /\ baseline_file.kind = "json") => baseline_file' = baseline_file]_vars

\* C8 witness: a verification against a stored baseline that reported changes
C8_Witness ==
    /\ Compared
    /\ TheReport.summary.modified_files + TheReport.summary.new_files > 0

\* the call was a verification run started with no baseline at the locator
StartedWithoutBaseline ==
    \/ result.op = "verify_integrity" /\ NotFound(result.ret)
    \/ result.op = "main" /\ result.outcome = "baseline" /\ baseline_file.kind # "directory"

\* C9: a verification run started with no baseline persists a snapshot of the
\* current tree at the locator and returns a report in which every current
\* file is new and none unchanged, modified or missing.
C9_FirstRunCreatesBaseline ==
    StartedWithoutBaseline =>
        /\ baseline_file.kind = "json"
        /\ baseline_file.doc.files = ScanTree(fs, {}, <<>>).files
        /\ HasReport
        /\ NewPaths(TheReport) = DOMAIN baseline_file.doc.files
        /\ UnchangedPaths(TheReport) \cup ModifiedPaths(TheReport) \cup MissingPaths(TheReport) = {}

\* the caller holds a document built by generate_baseline
HasSnapshot == result.op = "generate_baseline"

\* C10: a file that cannot be opened or read during the walk is absent from
\* the document's files, has a message in the document's errors, and every
\* other file is recorded.
C10_UnreadableFileIsScanError ==
    HasSnapshot =>
        \A p \in Listed(fs) :
            IF fs.files[p].readable
            THEN p \in DOMAIN result.ret.files
            ELSE /\ p \notin DOMAIN result.ret.files
                 /\ \E i \in 1..Len(result.ret.errors) : result.ret.errors[i][2] = p

\* C11: a file hashed successfully in the stored baseline and unreadable (still
\* present) during the current scan is reported missing, and in none of
\* unchanged, modified or new.
C11_UnreadableFileIsMissing ==
    (Compared /\ WellFormed(baseline_file.doc)) =>
        \A p \in DOMAIN baseline_file.doc.files :
            ( /\ "error" \notin DOMAIN baseline_file.doc.files[p].hashes
              /\ fs.root /\ fs.files[p].exists /\ ~fs.files[p].readable )
            => /\ p \in MissingPaths(TheReport)
               /\ p \notin UnchangedPaths(TheReport) \cup ModifiedPaths(TheReport)
                              \cup NewPaths(TheReport)

\* the message generate_baseline records when the walk itself fails
RootScanFailure == Msg("Error walking filesystem", "")

\* C12: on a missing root generate_baseline ends in a root-scan failure the
\* caller can see, and a verification run never reports the baseline files as
\* missing from an empty snapshot built without error.
C12_InvalidRootIsFatal ==
    ~fs.root =>
        /\ HasSnapshot => RootScanFailure \in Range(result.ret.errors)
        /\ HasReport =>
              \/ RootScanFailure \in Range(result.current.errors) \cup Range(TheReport.errors)
              \/ MissingPaths(TheReport) = {}

\* C13: every scan error of the current snapshot built by a verification run
\* is carried by the report of that run.
C13_ScanErrorsReported ==
    HasReport => Range(result.current.errors) \subseteq Range(TheReport.errors)

\* the call met a baseline file it could not read or parse, or could not
\* write the baseline it built
PersistenceFailed ==
    /\ result.op \in {"verify_integrity", "generate_baseline", "main"}
    /\ baseline_file.kind \in {"corrupt", "directory"}

\* C14: a run that cannot read, parse or write the baseline ends in a failure
\* instead of returning a report or a baseline document.
C14_PersistenceFailureIsExplicit ==
    PersistenceFailed =>
        /\ ~HasReport
        /\ ~HasSnapshot
        /\ result.op = "main" => result.outcome = "JSONDecodeError"

\* a document was compared with itself
SelfCompared == result.op = "compare" /\ result.current.files = baseline_file.doc.files

\* C15: comparing a baseline document with itself yields empty modified, new
\* and missing lists and an unchanged set equal to the paths of its records,
\* whatever digest mappings the records hold.
C15_SelfComparisonIsUnchanged ==
    SelfCompared =>
        /\ TheReport.files.modified = <<>>
        /\ TheReport.files.new = <<>>
        /\ TheReport.files.missing = <<>>
        /\ UnchangedPaths(TheReport) = DOMAIN baseline_file.doc.files
        /\ Len(TheReport.files.unchanged) = Cardinality(DOMAIN baseline_file.doc.files)

\* C15 witness: a self comparison of a document holding a record without
\* digests and a record with a partial digest mapping
C15_Witness ==
    /\ SelfCompared
    /\ \E p, q \in DOMAIN baseline_file.doc.files :
          /\ baseline_file.doc.files[p].hashes = EmptyDict
          /\ DOMAIN baseline_file.doc.files[q].hashes = {"md5"}

\* C16: swapping previous and current swaps new and missing and keeps the
\* unchanged set, whatever the iteration order of the swapped comparison.
C16_SwapSymmetry ==
    result.op = "compare" =>
        \A iter \in Perms(Paths) :
            LET back == Compare(result.current.files, baseline_file.doc.files,
                                iter, EmptyResults)
            IN  /\ NewPaths(TheReport) = MissingPaths(back)
                /\ MissingPaths(TheReport) = NewPaths(back)
                /\ UnchangedPaths(TheReport) = UnchangedPaths(back)

\* C16 witness: a comparison of two different documents with a new path and
\* an unchanged path whose records hold different algorithm sets
C16_Witness ==
    /\ result.op = "compare"
    /\ NewPaths(TheReport) # {}
    /\ \E p \in UnchangedPaths(TheReport) :
          DOMAIN baseline_file.doc.files[p].hashes # DOMAIN result.current.files[p].hashes

====
